---- MODULE Spec2Model ----
(***************************************************************************)
(* Model of the Tic Tac Toe backend: the game logic of api/core.py and the *)
(* request handlers of api/main.py over the in-memory registries users_db, *)
(* sessions_db and user_games.                                             *)
(*                                                                         *)
(* Every handler is an `async def` whose body holds no await: on the      *)
(* event loop a handler runs from its first line to its return without    *)
(* another handler running in between, so one handler is one action and   *)
(* concurrent requests are all the orders in which the actions can occur. *)
(* The websocket handler awaits between frames; each frame it receives is *)
(* one action.                                                             *)
(***************************************************************************)
EXTENDS Integers, Sequences, FiniteSets, TLC

(* users_db, sessions_db, user_games, game_id_counter, user_id_counter are  *)
(* the module globals of main.py (a user's password hash is left out: the  *)
(* token of a request is taken to name its registered email). response is  *)
(* what the last HTTP request returned or raised. accepted records, per    *)
(* session and cell, how many make_move requests were answered with a      *)
(* status other than "invalid". sockets holds the open websocket           *)
(* connections, each with its path's game_id and the frames sent on it.    *)
(* probe is a TicTacToeGame object of core.py outside any session, built   *)
(* from a board, with the last method called on it and what it returned.   *)
VARIABLES users_db, sessions_db, user_games, game_id_counter, user_id_counter,
          response, accepted, sockets, probe

vars == <<users_db, sessions_db, user_games, game_id_counter, user_id_counter,
          response, accepted, sockets, probe>>

(***************************************************************************)
(* Bounds of the exploration.                                              *)
(***************************************************************************)
MaxMoves == 2
MaxSockets == 1
MaxFrames == 1
MaxGames == 2

(* Python's None. *)
None == "None"

Idx == 0..2

(* The accounts requests register with: <<email, username>>. *)
Accounts == {<<"alice@x", "alice">>, <<"bob@x", "bob">>, <<"ai@x", "AI">>}

Emails == {a[1] : a \in Accounts}

Usernames == {a[2] : a \in Accounts}

Range(s) == {s[i] : i \in DOMAIN s}

Min(S) == CHOOSE x \in S : \A y \in S : x <= y

(***************************************************************************)
(* core.py                                                                 *)
(***************************************************************************)
player_x == "X"

player_o == "O"

(* TicTacToeGame.__init__ with a board: the game holds a copy of it. *)
TicTacToeGameOf(board) == [board |-> board, current |-> player_x]

(* TicTacToeGame.__init__ with board = None. *)
TicTacToeGame == [board |-> [r \in Idx |-> [c \in Idx |-> None]], current |-> player_x]

(* TicTacToeGame.make_move writing the cell before it checks the move. *)
TicTacToeGame_make_move_WriteThenCheck(game, row, col, player) ==
    IF game.board[row][col] = None /\ player = game.current
    THEN [game |-> [board |-> [game.board EXCEPT ![row][col] = player],
                    current |-> IF player = player_x THEN player_o ELSE player_x],
          success |-> TRUE]
    ELSE [game |-> [game EXCEPT !.board[row][col] = player], success |-> FALSE]

(* TicTacToeGame.make_move without the test that the cell is empty. *)
TicTacToeGame_make_move_AnyCell(game, row, col, player) ==
    IF player = game.current
    THEN [game |-> [board |-> [game.board EXCEPT ![row][col] = player],
                    current |-> IF player = player_x THEN player_o ELSE player_x],
          success |-> TRUE]
    ELSE [game |-> game, success |-> FALSE]

(* TicTacToeGame.make_move without the switch of self.current. *)
TicTacToeGame_make_move_NoSwitch(game, row, col, player) ==
    IF game.board[row][col] = None /\ player = game.current
    THEN [game |-> [board |-> [game.board EXCEPT ![row][col] = player],
                    current |-> game.current],
          success |-> TRUE]
    ELSE [game |-> game, success |-> FALSE]

(* TicTacToeGame.make_move: the game after the call and the returned flag. *)
TicTacToeGame_make_move(game, row, col, player) ==
    IF game.board[row][col] = None /\ player = game.current
    THEN [game |-> [board |-> [game.board EXCEPT ![row][col] = player],
                    current |-> IF player = player_x THEN player_o ELSE player_x],
          success |-> TRUE]
    ELSE [game |-> game, success |-> FALSE]

(* The list `lines` of check_winner, in the order the code appends to it:  *)
(* row i and column i for i = 0, 1, 2, then the two diagonals.             *)
Lines(board) ==
    << <<board[0][0], board[0][1], board[0][2]>>,
       <<board[0][0], board[1][0], board[2][0]>>,
       <<board[1][0], board[1][1], board[1][2]>>,
       <<board[0][1], board[1][1], board[2][1]>>,
       <<board[2][0], board[2][1], board[2][2]>>,
       <<board[0][2], board[1][2], board[2][2]>>,
       <<board[0][0], board[1][1], board[2][2]>>,
       <<board[0][2], board[1][1], board[2][0]>> >>

(* TicTacToeGame.check_winner without the test that the line's first cell  *)
(* is occupied: a line of three empty cells counts as uniform.             *)
check_winner_EmptyLineCounts(board) ==
    LET lines == Lines(board)
        hits == {k \in 1..8 : lines[k][1] = lines[k][2] /\ lines[k][2] = lines[k][3]}
    IN  IF hits = {} THEN None ELSE lines[Min(hits)][1]

(* TicTacToeGame.check_winner: the mark of the first uniform line, or None. *)
check_winner(board) ==
    LET lines == Lines(board)
        hits == {k \in 1..8 : lines[k][1] # None /\ lines[k][1] = lines[k][2]
                                                 /\ lines[k][2] = lines[k][3]}
    IN  IF hits = {} THEN None ELSE lines[Min(hits)][1]

(* TicTacToeGame.is_draw without the test that nobody has won. *)
is_draw_FullOnly(board) ==
    \A r \in Idx, c \in Idx : board[r][c] # None

(* TicTacToeGame.is_draw. *)
is_draw(board) ==
    (\A r \in Idx, c \in Idx : board[r][c] # None) /\ check_winner(board) = None

(* TicTacToeGame.serialize_board: a copy of the board. *)
serialize_board(game) == game.board

(* ai_move: the first empty cell in row-major order, <<-1, -1>> on a full board. *)
ai_move(board, symbol) ==
    LET empty == {k \in 0..8 : board[k \div 3][k % 3] = None}
    IN  IF empty = {} THEN <<-1, -1>>
        ELSE <<Min(empty) \div 3, Min(empty) % 3>>

(***************************************************************************)
(* main.py: responses                                                      *)
(***************************************************************************)
HTTPException(code) == [kind |-> "HTTPException", status_code |-> code]

MoveResponse(b, s, w, n) ==
    [kind |-> "MoveResponse", board |-> b, status |-> s, winner |-> w, next_turn |-> n]

(* get_current_user: the token names a registered email. *)
get_current_user(email) == email \in DOMAIN users_db

(* The loop `for u in users_db.values(): if u["username"] == uname`. *)
UserNamed(db, uname) == {e \in DOMAIN db : db[e].username = uname}

(* dict[key] = value, the other keys kept. *)
Put(d, k, v) == [x \in DOMAIN d \cup {k} |-> IF x = k THEN v ELSE d[x]]

EmptyDict == [x \in {} |-> x]

(***************************************************************************)
(* main.py: register_user                                                  *)
(***************************************************************************)
register_user(email, username) ==
    IF email \in DOMAIN users_db
    THEN /\ response' = HTTPException(409)
         /\ UNCHANGED <<users_db, user_id_counter>>
    ELSE IF UserNamed(users_db, username) # {}
    THEN /\ response' = HTTPException(409)
         /\ UNCHANGED <<users_db, user_id_counter>>
    ELSE /\ users_db' = Put(users_db, email,
                            [id |-> user_id_counter, username |-> username, email |-> email])
         /\ user_id_counter' = user_id_counter + 1
         /\ response' = [kind |-> "TokenResponse", sub |-> email]

RegisterUser(email, username) ==
    /\ register_user(email, username)
    /\ UNCHANGED <<sessions_db, user_games, game_id_counter, accepted, sockets, probe>>

(***************************************************************************)
(* main.py: start_game                                                     *)
(***************************************************************************)
(* One pass of the loop `for uname in players` that tracks the game in the *)
(* history of the user called uname, if there is one.                      *)
TrackGame(ug, uname, gid) ==
    LET named == UserNamed(users_db, uname)
    IN  IF named = {} THEN ug
        ELSE LET uid == users_db[CHOOSE e \in named : TRUE].id
             IN  Put(ug, uid, Append(IF uid \in DOMAIN ug THEN ug[uid] ELSE <<>>, gid))

(* The record start_game stores for the players it resolved; created_at,   *)
(* the time of the call, is left out.                                      *)
NewGameRec(players, is_ai) ==
    [id |-> game_id_counter, game |-> TicTacToeGame, players |-> players,
     is_ai |-> is_ai, player_turn |-> players[1], moves |-> <<>>, winner |-> None]

(* start_game without `game_id_counter += 1`. *)
CreateGame_NoIncrement(players, is_ai) ==
    /\ sessions_db' = Put(sessions_db, game_id_counter, NewGameRec(players, is_ai))
    /\ user_games' = TrackGame(TrackGame(user_games, players[1], game_id_counter),
                               players[2], game_id_counter)
    /\ game_id_counter' = game_id_counter
    /\ response' = [kind |-> "int", value |-> game_id_counter]

CreateGame(players, is_ai) ==
    /\ sessions_db' = Put(sessions_db, game_id_counter, NewGameRec(players, is_ai))
    /\ user_games' = TrackGame(TrackGame(user_games, players[1], game_id_counter),
                               players[2], game_id_counter)
    /\ game_id_counter' = game_id_counter + 1
    /\ response' = [kind |-> "int", value |-> game_id_counter]

start_game(email, opponent_type, opponent_username) ==
    LET username == users_db[email].username
    IN  IF opponent_type = "human" /\ opponent_username # None
        THEN IF UserNamed(users_db, opponent_username) = {}
             THEN /\ response' = HTTPException(404)
                  /\ UNCHANGED <<sessions_db, user_games, game_id_counter>>
             ELSE CreateGame(<<username, opponent_username>>, FALSE)
        ELSE CreateGame(<<username, "AI">>, TRUE)

StartGame(email, opponent_type, opponent_username) ==
    /\ get_current_user(email)
    /\ start_game(email, opponent_type, opponent_username)
    /\ UNCHANGED <<users_db, user_id_counter, accepted, sockets, probe>>

(***************************************************************************)
(* main.py: make_move                                                      *)
(***************************************************************************)
(* The requester's mark. *)
RequesterMark(game_rec, username) ==
    IF username = game_rec.players[1] THEN "X" ELSE "O"

(* The player argument of game.make_move:                                  *)
(* `mark if game.current == mark else game.current`.                       *)
MovePlayer(game, mark) ==
    IF game.current = mark THEN mark ELSE game.current

MoveEntry(player, row, col, symbol) ==
    [player |-> player, pos |-> <<row, col>>, symbol |-> symbol]

(* The AI branch taken on the human's turn instead of the AI's. *)
AiTurn_OnX(game_rec, game) ==
    game_rec.is_ai /\ game.current = "X"

(* The condition of the AI branch. *)
AiTurn(game_rec, game) ==
    game_rec.is_ai /\ game.current = "O"

(* The AI branch with the log append outside `if ai_r != -1 and ai_c != -1`. *)
AiReply_LogsAlways(game_rec) ==
    LET rc == ai_move(serialize_board(game_rec.game), "O")
    IN  IF rc[1] # -1 /\ rc[2] # -1
        THEN [game_rec EXCEPT
                 !.game = TicTacToeGame_make_move(game_rec.game, rc[1], rc[2], "O").game,
                 !.moves = Append(@, MoveEntry("AI", rc[1], rc[2], "O"))]
        ELSE [game_rec EXCEPT !.moves = Append(@, MoveEntry("AI", rc[1], rc[2], "O"))]

(* The AI branch up to the recomputation of the winner: the record after it. *)
AiReply(game_rec) ==
    LET rc == ai_move(serialize_board(game_rec.game), "O")
    IN  IF rc[1] # -1 /\ rc[2] # -1
        THEN [game_rec EXCEPT
                 !.game = TicTacToeGame_make_move(game_rec.game, rc[1], rc[2], "O").game,
                 !.moves = Append(@, MoveEntry("AI", rc[1], rc[2], "O"))]
        ELSE game_rec

(* The record after the requester's own mark was placed and logged. *)
AfterOwnMove(game_rec, username, row, col) ==
    LET mark == RequesterMark(game_rec, username)
        mv == TicTacToeGame_make_move(game_rec.game, row, col, MovePlayer(game_rec.game, mark))
    IN  [game_rec EXCEPT !.game = mv.game,
                         !.moves = Append(@, MoveEntry(username, row, col, mark))]

(* The body of make_move without the recomputation of winner and is_draw   *)
(* after the AI's reply.                                                   *)
MoveResult_NoRecompute(game_rec, username, row, col) ==
    LET mark == RequesterMark(game_rec, username)
        mv == TicTacToeGame_make_move(game_rec.game, row, col, MovePlayer(game_rec.game, mark))
    IN  IF ~mv.success
        THEN [rec |-> [game_rec EXCEPT !.game = mv.game],
              response |-> MoveResponse(serialize_board(mv.game), "invalid", None,
                                        mv.game.current)]
        ELSE LET own == AfterOwnMove(game_rec, username, row, col)
                 last == IF AiTurn(own, own.game) THEN AiReply(own) ELSE own
                 winner == check_winner(own.game.board)
                 draw == is_draw(own.game.board)
             IN  [rec |-> IF winner # None THEN [last EXCEPT !.winner = winner] ELSE last,
                  response |-> MoveResponse(
                      serialize_board(last.game),
                      IF winner # None THEN "won" ELSE IF draw THEN "draw" ELSE "continue",
                      winner,
                      IF winner # None \/ draw THEN None ELSE last.game.current)]

(* The body of make_move for a participant: the record it leaves and the   *)
(* response it returns. The game object is the record's own, so what       *)
(* game.make_move does to it is in the record whatever it returns.         *)
MoveResult(game_rec, username, row, col) ==
    LET mark == RequesterMark(game_rec, username)
        mv == TicTacToeGame_make_move(game_rec.game, row, col, MovePlayer(game_rec.game, mark))
    IN  IF ~mv.success
        THEN [rec |-> [game_rec EXCEPT !.game = mv.game],
              response |-> MoveResponse(serialize_board(mv.game), "invalid", None,
                                        mv.game.current)]
        ELSE LET own == AfterOwnMove(game_rec, username, row, col)
                 last == IF AiTurn(own, own.game) THEN AiReply(own) ELSE own
                 winner == check_winner(last.game.board)
                 draw == is_draw(last.game.board)
             IN  [rec |-> IF winner # None THEN [last EXCEPT !.winner = winner] ELSE last,
                  response |-> MoveResponse(
                      serialize_board(last.game),
                      IF winner # None THEN "won" ELSE IF draw THEN "draw" ELSE "continue",
                      winner,
                      IF winner # None \/ draw THEN None ELSE last.game.current)]

(* History of the requests: how many make_move requests for a cell of a    *)
(* session returned a status other than "invalid".                         *)
CountAccepted(acc, gid, row, col) ==
    IF <<gid, row, col>> \in DOMAIN acc THEN acc[<<gid, row, col>>] ELSE 0

make_move(email, gid, row, col) ==
    IF gid \notin DOMAIN sessions_db
    THEN /\ response' = HTTPException(404)
         /\ UNCHANGED <<sessions_db, accepted>>
    ELSE IF users_db[email].username \notin Range(sessions_db[gid].players)
    THEN /\ response' = HTTPException(403)
         /\ UNCHANGED <<sessions_db, accepted>>
    ELSE LET out == MoveResult(sessions_db[gid], users_db[email].username, row, col)
         IN  /\ sessions_db' = [sessions_db EXCEPT ![gid] = out.rec]
             /\ response' = out.response
             /\ accepted' = IF out.response.status = "invalid" THEN accepted
                            ELSE Put(accepted, <<gid, row, col>>,
                                     CountAccepted(accepted, gid, row, col) + 1)

MakeMove(email, gid, row, col) ==
    /\ get_current_user(email)
    /\ make_move(email, gid, row, col)
    /\ UNCHANGED <<users_db, user_games, game_id_counter, user_id_counter, sockets, probe>>

(***************************************************************************)
(* main.py: websocket_game_updates                                         *)
(***************************************************************************)
(* websocket.accept(): the connection w is open on /ws/game/{game_id}. *)
WsAccept(w, game_id) ==
    /\ w \notin DOMAIN sockets
    /\ sockets' = Put(sockets, w, [game_id |-> game_id, sent |-> <<>>])
    /\ UNCHANGED <<users_db, sessions_db, user_games, game_id_counter, user_id_counter,
                   response, accepted, probe>>

(* The frame the loop sends back for the text it received. *)
WsFrame(game_id, data) ==
    IF data = "ping" THEN [kind |-> "text", text |-> "pong"]
    ELSE IF game_id \in DOMAIN sessions_db
    THEN [kind |-> "json",
          board |-> serialize_board(sessions_db[game_id].game),
          next_turn |-> sessions_db[game_id].game.current,
          winner |-> check_winner(sessions_db[game_id].game.board)]
    ELSE [kind |-> "text", text |-> "Invalid game_id"]

(* One turn of the loop: receive_text, then one send. *)
WsReceive(w, data) ==
    /\ w \in DOMAIN sockets
    /\ sockets' = [sockets EXCEPT ![w].sent = Append(@, WsFrame(sockets[w].game_id, data))]
    /\ UNCHANGED <<users_db, sessions_db, user_games, game_id_counter, user_id_counter,
                   response, accepted, probe>>

(* WebSocketDisconnect: the handler returns. *)
WsDisconnect(w) ==
    /\ w \in DOMAIN sockets
    /\ sockets' = [x \in DOMAIN sockets \ {w} |-> sockets[x]]
    /\ UNCHANGED <<users_db, sessions_db, user_games, game_id_counter, user_id_counter,
                   response, accepted, probe>>

(***************************************************************************)
(* main.py: get_game_state                                                 *)
(***************************************************************************)
(* The MoveResponse get_game_state builds from the session's game. *)
GameState(game_rec) ==
    LET game == game_rec.game
        winner == check_winner(game.board)
        draw == is_draw(game.board)
    IN  MoveResponse(serialize_board(game),
                     IF winner # None THEN "won" ELSE IF draw THEN "draw" ELSE "continue",
                     winner,
                     IF winner # None \/ draw THEN None ELSE game.current)

get_game_state(game_id) ==
    IF game_id \notin DOMAIN sessions_db
    THEN response' = HTTPException(404)
    ELSE response' = GameState(sessions_db[game_id])

GetGameState(email, game_id) ==
    /\ get_current_user(email)
    /\ get_game_state(game_id)
    /\ UNCHANGED <<users_db, sessions_db, user_games, game_id_counter, user_id_counter,
                   accepted, sockets, probe>>

(***************************************************************************)
(* main.py: get_history                                                    *)
(***************************************************************************)
(* The item get_history builds for a session; started_at, a time, is left  *)
(* out and completed_at is always None.                                    *)
GameHistoryItem(gm) ==
    [game_id |-> gm.id, completed_at |-> None, players |-> gm.players,
     winner |-> gm.winner, moves_count |-> Len(gm.moves)]

(* The list `history` the loop over user_games.get(uid, []) builds. *)
History(uid) ==
    LET tracked == IF uid \in DOMAIN user_games THEN user_games[uid] ELSE <<>>
        found == SelectSeq(tracked, LAMBDA gid : gid \in DOMAIN sessions_db)
    IN  [i \in 1..Len(found) |-> GameHistoryItem(sessions_db[found[i]])]

get_history(email) ==
    response' = [kind |-> "GameHistoryResponse", history |-> History(users_db[email].id)]

GetHistory(email) ==
    /\ get_current_user(email)
    /\ get_history(email)
    /\ UNCHANGED <<users_db, sessions_db, user_games, game_id_counter, user_id_counter,
                   accepted, sockets, probe>>

(***************************************************************************)
(* core.py: the methods of a game object called on their own               *)
(***************************************************************************)
(* game.check_winner() on the probe. *)
ProbeCheckWinner ==
    /\ probe' = [probe EXCEPT !.call = "check_winner",
                              !.returned = check_winner(probe.game.board)]
    /\ UNCHANGED <<users_db, sessions_db, user_games, game_id_counter, user_id_counter,
                   response, accepted, sockets>>

(* game.is_draw() on the probe. *)
ProbeIsDraw ==
    /\ probe' = [probe EXCEPT !.call = "is_draw",
                              !.returned = is_draw(probe.game.board)]
    /\ UNCHANGED <<users_db, sessions_db, user_games, game_id_counter, user_id_counter,
                   response, accepted, sockets>>

(***************************************************************************)
(* Specifications                                                          *)
(***************************************************************************)
(* The module's globals as the import leaves them; no request answered yet. *)
Init ==
    /\ users_db = EmptyDict
    /\ sessions_db = EmptyDict
    /\ user_games = EmptyDict
    /\ game_id_counter = 1
    /\ user_id_counter = 1
    /\ response = [kind |-> "none"]
    /\ accepted = EmptyDict
    /\ sockets = EmptyDict
    /\ probe = [game |-> TicTacToeGame, call |-> "none", returned |-> None]

(* The game ids requests name: the session of the run and one that does   *)
(* not exist.                                                              *)
GameIds == {1, 2}

(* The accounts whose username is not the name start_game gives the AI. *)
HumanAccounts == {a \in Accounts : a[2] # "AI"}

(* The session the request is about holds at most MaxMoves logged moves    *)
(* once the request is answered.                                           *)
WithinMaxMoves(gid) ==
    gid \in DOMAIN sessions_db => Len(sessions_db'[gid].moves) <= MaxMoves

(* Two users and one session of any kind between them (against each other, *)
(* against oneself, against the AI), of at most MaxMoves logged moves.     *)
Next ==
    \/ \E a \in HumanAccounts : RegisterUser(a[1], a[2])
    \/ \E e \in Emails, t \in {"human", "ai"}, o \in Usernames \cup {None} :
          /\ DOMAIN sessions_db = {}
          /\ StartGame(e, t, o)
    \/ \E e \in Emails, gid \in GameIds, row \in Idx, col \in Idx :
          /\ MakeMove(e, gid, row, col)
          /\ WithinMaxMoves(gid)

Spec == Init /\ [][Next]_vars

(* Two users and one session against the AI, played to the end. *)
NextAI ==
    \/ \E a \in HumanAccounts : RegisterUser(a[1], a[2])
    \/ \E e \in Emails :
          /\ DOMAIN sessions_db = {}
          /\ StartGame(e, "ai", None)
    \/ \E e \in Emails, gid \in GameIds, row \in Idx, col \in Idx :
          MakeMove(e, gid, row, col)

SpecAI == Init /\ [][NextAI]_vars

(* Every account, the one called "AI" included, and one session against    *)
(* the AI of at most MaxMoves logged moves.                                *)
NextNamedAI ==
    \/ \E a \in Accounts : RegisterUser(a[1], a[2])
    \/ \E e \in Emails :
          /\ DOMAIN sessions_db = {}
          /\ StartGame(e, "ai", None)
    \/ \E e \in Emails, gid \in GameIds, row \in Idx, col \in Idx :
          /\ MakeMove(e, gid, row, col)
          /\ WithinMaxMoves(gid)

SpecNamedAI == Init /\ [][NextNamedAI]_vars

(* One session against the AI and the websocket connections watching it:  *)
(* at most MaxSockets connections of at most MaxFrames frames each.        *)
NextWs ==
    \/ \E a \in HumanAccounts : DOMAIN sessions_db = {} /\ RegisterUser(a[1], a[2])
    \/ \E e \in Emails :
          /\ DOMAIN sessions_db = {}
          /\ StartGame(e, "ai", None)
    \/ \E e \in Emails, gid \in GameIds, row \in Idx, col \in Idx :
          /\ MakeMove(e, gid, row, col)
          /\ WithinMaxMoves(gid)
    \/ \E w \in 1..MaxSockets, gid \in GameIds : WsAccept(w, gid)
    \/ \E w \in 1..MaxSockets, data \in {"ping", "state"} :
          /\ w \in DOMAIN sockets /\ Len(sockets[w].sent) < MaxFrames
          /\ WsReceive(w, data)
    \/ \E w \in 1..MaxSockets : WsDisconnect(w)

SpecWs == Init /\ [][NextWs]_vars

(* Every account and at most MaxGames sessions of any kind, none of them   *)
(* played: the requests that start sessions and the ones that read them.   *)
NextStart ==
    \/ \E a \in Accounts : RegisterUser(a[1], a[2])
    \/ \E e \in Emails, t \in {"human", "ai"}, o \in Usernames \cup {None} :
          /\ game_id_counter <= MaxGames
          /\ StartGame(e, t, o)
    \/ \E e \in Emails, gid \in 1..(MaxGames + 1) : GetGameState(e, gid)
    \/ \E e \in Emails : GetHistory(e)

SpecStart == Init /\ [][NextStart]_vars

(* Every 3x3 board of empty cells, X and O, reachable in play or not. *)
Boards == [Idx -> [Idx -> {None, player_x, player_o}]]

(* A game object built from any board, no method called on it yet. *)
InitProbe ==
    /\ users_db = EmptyDict
    /\ sessions_db = EmptyDict
    /\ user_games = EmptyDict
    /\ game_id_counter = 1
    /\ user_id_counter = 1
    /\ response = [kind |-> "none"]
    /\ accepted = EmptyDict
    /\ sockets = EmptyDict
    /\ \E board \in Boards :
          probe = [game |-> TicTacToeGameOf(board), call |-> "none", returned |-> None]

NextProbe ==
    \/ ProbeCheckWinner
    \/ ProbeIsDraw

SpecProbe == InitProbe /\ [][NextProbe]_vars

(***************************************************************************)
(* Vocabulary of the properties                                            *)
(***************************************************************************)
Cells == Idx \X Idx

CountMark(board, m) == Cardinality({p \in Cells : board[p[1]][p[2]] = m})

BoardFull(board) == \A p \in Cells : board[p[1]][p[2]] # None

(* Some row, column or diagonal of the board is uniformly m. *)
HasLine(board, m) ==
    \/ \E r \in Idx : \A c \in Idx : board[r][c] = m
    \/ \E c \in Idx : \A r \in Idx : board[r][c] = m
    \/ \A i \in Idx : board[i][i] = m
    \/ \A i \in Idx : board[i][2 - i] = m

(* A mark has three in a line, or the board is full. *)
Terminal(board) == HasLine(board, "X") \/ HasLine(board, "O") \/ BoardFull(board)

(* The request is one make_move answers with a MoveResponse: the requester *)
(* is registered, the session exists and lists the requester's username.   *)
Answered(e, gid) ==
    /\ e \in DOMAIN users_db
    /\ gid \in DOMAIN sessions_db
    /\ users_db[e].username \in Range(sessions_db[gid].players)

(* The user is one of the two participants of the session: the user who    *)
(* started it or, in a session between two users, the opponent.            *)
IsParticipant(game_rec, username) ==
    \/ username = game_rec.players[1]
    \/ ~game_rec.is_ai /\ username = game_rec.players[2]

(* The request is a move on an existing session by one of its participants. *)
ByParticipant(e, gid) ==
    /\ e \in DOMAIN users_db
    /\ gid \in DOMAIN sessions_db
    /\ IsParticipant(sessions_db[gid], users_db[e].username)

IsMoveResponse(r) == r.kind = "MoveResponse"

(***************************************************************************)
(* C1: a move by a participant is accepted only if the cell is empty and   *)
(* the requester's own mark is the session's current turn; a move          *)
(* submitted on the other mark's turn is answered "invalid" and leaves the *)
(* session as it was.                                                      *)
(***************************************************************************)
C1_OnlyOwnTurnAccepted ==
    [][\A e \in Emails, gid \in GameIds, row \in Idx, col \in Idx :
          (/\ ByParticipant(e, gid)
           /\ MakeMove(e, gid, row, col)
           /\ \/ sessions_db[gid].game.board[row][col] # None
              \/ RequesterMark(sessions_db[gid], users_db[e].username)
                    # sessions_db[gid].game.current)
          => /\ response'.status = "invalid"
             /\ sessions_db' = sessions_db]_vars

(***************************************************************************)
(* C2: once a session is terminal, every later move on it is answered      *)
(* "invalid" and the session stays exactly as it was.                      *)
(***************************************************************************)
C2_TerminalSessionRejectsMoves ==
    [][\A e \in Emails, gid \in GameIds, row \in Idx, col \in Idx :
          (/\ ByParticipant(e, gid)
           /\ Terminal(sessions_db[gid].game.board)
           /\ MakeMove(e, gid, row, col))
          => /\ response'.status = "invalid"
             /\ sessions_db' = sessions_db]_vars

(***************************************************************************)
(* C3: in a session against the AI, when the accepted human move completes *)
(* a line or fills the last empty cell, ai_move is not called and the      *)
(* request adds no O to the board and no second entry to the move log.     *)
(***************************************************************************)
C3_NoAiReplyOnceTerminal ==
    [][\A e \in Emails, gid \in GameIds, row \in Idx, col \in Idx :
          (/\ ByParticipant(e, gid)
           /\ sessions_db[gid].is_ai
           /\ sessions_db[gid].game.board[row][col] = None
           /\ Terminal(AfterOwnMove(sessions_db[gid], users_db[e].username,
                                    row, col).game.board)
           /\ MakeMove(e, gid, row, col))
          => /\ ~AiTurn(sessions_db[gid],
                        AfterOwnMove(sessions_db[gid], users_db[e].username,
                                     row, col).game)
             /\ CountMark(sessions_db'[gid].game.board, "O")
                   = CountMark(sessions_db[gid].game.board, "O")
             /\ Len(sessions_db'[gid].moves) = Len(sessions_db[gid].moves) + 1]_vars

(***************************************************************************)
(* C4: whenever a move is answered "invalid", the session after the call   *)
(* (board, turn, move log, winner) is the session before the call, and the *)
(* board of the response is that unchanged board.                          *)
(***************************************************************************)
C4_InvalidLeavesSessionUnchanged ==
    [][\A e \in Emails, gid \in GameIds, row \in Idx, col \in Idx :
          (/\ IsMoveResponse(response')
           /\ response'.status = "invalid"
           /\ Answered(e, gid)
           /\ MakeMove(e, gid, row, col))
          => /\ sessions_db' = sessions_db
             /\ response'.board = sessions_db[gid].game.board]_vars

(* A move was answered "invalid" on a session that holds marks. *)
C4_Witness ==
    /\ IsMoveResponse(response)
    /\ response.status = "invalid"
    /\ \E gid \in DOMAIN sessions_db :
          /\ sessions_db[gid].moves # <<>>
          /\ response.board = sessions_db[gid].game.board

(***************************************************************************)
(* C5: a move on an existing session by a user who is not one of its two   *)
(* participants is answered 403 and leaves every session unchanged.        *)
(***************************************************************************)
C5_OutsiderGets403 ==
    [][\A e \in Emails, gid \in GameIds, row \in Idx, col \in Idx :
          (/\ e \in DOMAIN users_db
           /\ gid \in DOMAIN sessions_db
           /\ ~IsParticipant(sessions_db[gid], users_db[e].username)
           /\ MakeMove(e, gid, row, col))
          => /\ response' = HTTPException(403)
             /\ sessions_db' = sessions_db]_vars

(***************************************************************************)
(* C6: after every accepted move the server sends the snapshot {board,     *)
(* next turn, winner} of the new state to every connection open on that    *)
(* session, without the client sending anything.                           *)
(***************************************************************************)
Snapshot(game_rec) ==
    [kind |-> "json", board |-> game_rec.game.board,
     next_turn |-> game_rec.game.current, winner |-> check_winner(game_rec.game.board)]

C6_PushAfterAcceptedMove ==
    [][\A e \in Emails, gid \in GameIds, row \in Idx, col \in Idx :
          (/\ IsMoveResponse(response')
           /\ response'.status # "invalid"
           /\ Answered(e, gid)
           /\ MakeMove(e, gid, row, col))
          => \A w \in DOMAIN sockets :
                sockets[w].game_id = gid
                => /\ w \in DOMAIN sockets'
                   /\ sockets'[w].sent = Append(sockets[w].sent, Snapshot(sessions_db'[gid]))]_vars

(***************************************************************************)
(* C7: in every reachable state of every session at most one mark has a    *)
(* complete row, column or diagonal.                                       *)
(***************************************************************************)
C7_AtMostOneWinner ==
    \A gid \in DOMAIN sessions_db :
        ~(HasLine(sessions_db[gid].game.board, "X") /\ HasLine(sessions_db[gid].game.board, "O"))

(***************************************************************************)
(* C8: in the move log of a session the first entry's mark is X and the    *)
(* marks of any two consecutive entries differ.                            *)
(***************************************************************************)
C8_LoggedMarksAlternate ==
    \A gid \in DOMAIN sessions_db :
        LET moves == sessions_db[gid].moves
        IN  /\ moves # <<>> => moves[1].symbol = "X"
            /\ \A i \in 1..(Len(moves) - 1) : moves[i].symbol # moves[i + 1].symbol

(***************************************************************************)
(* C9: in a session against the AI the human move and the AI's reply are   *)
(* one step: every accepted move answered "continue" returns a board with  *)
(* exactly one more X and one more O than before and next turn X, and      *)
(* between requests the session's turn is O only on a full board.          *)
(***************************************************************************)
C9_AiReplyInSameStep ==
    [][/\ \A e \in Emails, gid \in GameIds, row \in Idx, col \in Idx :
             (/\ IsMoveResponse(response')
              /\ response'.status = "continue"
              /\ Answered(e, gid)
              /\ sessions_db[gid].is_ai
              /\ MakeMove(e, gid, row, col))
             => /\ CountMark(response'.board, "X")
                      = CountMark(sessions_db[gid].game.board, "X") + 1
                /\ CountMark(response'.board, "O")
                      = CountMark(sessions_db[gid].game.board, "O") + 1
                /\ response'.next_turn = "X"
                /\ response'.board = sessions_db'[gid].game.board
       /\ \A gid \in DOMAIN sessions_db' :
             sessions_db'[gid].is_ai /\ sessions_db'[gid].game.current = "O"
             => BoardFull(sessions_db'[gid].game.board)]_vars

(* A move on a session against the AI was answered "continue" with the     *)
(* human's mark and the AI's reply on the board.                           *)
C9_Witness ==
    /\ IsMoveResponse(response)
    /\ response.status = "continue"
    /\ \E gid \in DOMAIN sessions_db :
          /\ sessions_db[gid].is_ai
          /\ response.board = sessions_db[gid].game.board
          /\ CountMark(response.board, "X") = 2
          /\ CountMark(response.board, "O") = 2

(***************************************************************************)
(* C10: whatever the order of the requests on a session, a cell that holds *)
(* a mark never changes again, and of the requests that target one cell at *)
(* most one is accepted: once one was, the others are answered "invalid".  *)
(***************************************************************************)
C10_CellWrittenOnce ==
    [][/\ \A gid \in DOMAIN sessions_db, p \in Cells :
             sessions_db[gid].game.board[p[1]][p[2]] # None
             => sessions_db'[gid].game.board[p[1]][p[2]]
                   = sessions_db[gid].game.board[p[1]][p[2]]
       /\ \A k \in DOMAIN accepted' : accepted'[k] <= 1
       /\ (IsMoveResponse(response') /\ response'.status # "invalid")
          => \A e \in Emails, gid \in GameIds, row \in Idx, col \in Idx :
                (Answered(e, gid) /\ MakeMove(e, gid, row, col))
                => CountAccepted(accepted, gid, row, col) = 0]_vars

(* A request was accepted for a cell of a session between two users, and   *)
(* a later request on that session was answered "invalid".                 *)
C10_Witness ==
    /\ IsMoveResponse(response)
    /\ response.status = "invalid"
    /\ \E gid \in DOMAIN sessions_db :
          /\ ~sessions_db[gid].is_ai
          /\ Len(sessions_db[gid].moves) = 2
          /\ \A p \in Cells :
                sessions_db[gid].game.board[p[1]][p[2]] # None
                => CountAccepted(accepted, gid, p[1], p[2]) = 1


(***************************************************************************)
(* C11: make_move answers "draw" exactly when, after the accepted move and *)
(* the AI's reply to it, every cell is occupied and no row, column or      *)
(* diagonal is uniform; that response has no winner and no next turn; and  *)
(* is_draw holds only of a full board without a winner. The session meant  *)
(* is the one the answered request changed.                                *)
(***************************************************************************)
NoLine(board) == ~HasLine(board, "X") /\ ~HasLine(board, "O")

C11_DrawIffFullAndNoLine ==
    [][(IsMoveResponse(response') /\ response'.status # "invalid")
          => \A gid \in DOMAIN sessions_db :
                sessions_db'[gid] # sessions_db[gid]
                => LET board == sessions_db'[gid].game.board
                   IN  /\ response'.board = board
                       /\ response'.status = "draw" <=> (BoardFull(board) /\ NoLine(board))
                       /\ response'.status = "draw"
                             => response'.winner = None /\ response'.next_turn = None
                       /\ is_draw(board) => (BoardFull(board) /\ NoLine(board))]_vars

(* A move was just answered "draw". *)
C11_Witness ==
    /\ IsMoveResponse(response)
    /\ response.status = "draw"
    /\ \E gid \in DOMAIN sessions_db :
          BoardFull(sessions_db[gid].game.board) /\ NoLine(sessions_db[gid].game.board)

(***************************************************************************)
(* C12: on every 3x3 board, reachable in play or not, check_winner returns *)
(* None when no row, column or diagonal is uniform, and otherwise the mark *)
(* a scan of the rows top to bottom, then the columns left to right, then  *)
(* the two diagonals finds first; it never returns a mark that has no      *)
(* uniform line.                                                           *)
(***************************************************************************)
(* The lines in the order of the reference scan. *)
ReferenceLines(board) ==
    << <<board[0][0], board[0][1], board[0][2]>>,
       <<board[1][0], board[1][1], board[1][2]>>,
       <<board[2][0], board[2][1], board[2][2]>>,
       <<board[0][0], board[1][0], board[2][0]>>,
       <<board[0][1], board[1][1], board[2][1]>>,
       <<board[0][2], board[1][2], board[2][2]>>,
       <<board[0][0], board[1][1], board[2][2]>>,
       <<board[0][2], board[1][1], board[2][0]>> >>

RECURSIVE ReferenceScan(_, _)
ReferenceScan(lines, k) ==
    IF k > Len(lines) THEN None
    ELSE IF lines[k][1] \in {"X", "O"} /\ lines[k] = <<lines[k][1], lines[k][1], lines[k][1]>>
    THEN lines[k][1]
    ELSE ReferenceScan(lines, k + 1)

ReferenceWinner(board) == ReferenceScan(ReferenceLines(board), 1)

C12_CheckWinnerMatchesReferenceScan ==
    probe.call = "check_winner"
    => LET board == probe.game.board
       IN  /\ NoLine(board) => probe.returned = None
           /\ ~NoLine(board) => probe.returned = ReferenceWinner(board)
           /\ probe.returned # None => HasLine(board, probe.returned)

(* check_winner was called on a board where both marks have a uniform line *)
(* and it returned O.                                                      *)
C12_Witness ==
    /\ probe.call = "check_winner"
    /\ HasLine(probe.game.board, "X")
    /\ HasLine(probe.game.board, "O")
    /\ probe.returned = "O"
(***************************************************************************)
(* C13: under any interleaving of start_game requests, the ids returned    *)
(* are pairwise distinct and strictly increasing in the order of creation, *)
(* no existing session record is overwritten, and each new session starts  *)
(* with an empty board, X to move, an empty move log and no winner.        *)
(***************************************************************************)
C13_FreshIncreasingIds ==
    [][response'.kind = "int"
          => LET gid == response'.value
             IN  /\ gid \notin DOMAIN sessions_db
                 /\ \A g \in DOMAIN sessions_db : g < gid
                 /\ DOMAIN sessions_db' = DOMAIN sessions_db \cup {gid}
                 /\ \A g \in DOMAIN sessions_db : sessions_db'[g] = sessions_db[g]
                 /\ \A p \in Cells : sessions_db'[gid].game.board[p[1]][p[2]] = None
                 /\ sessions_db'[gid].game.current = "X"
                 /\ sessions_db'[gid].moves = <<>>
                 /\ sessions_db'[gid].winner = None]_vars

(* A second session was just started and the first is still there. *)
C13_Witness ==
    /\ response.kind = "int"
    /\ response.value = 2
    /\ DOMAIN sessions_db = {1, 2}
(***************************************************************************)
(* C14: starting a session against the AI appends the new id to the        *)
(* history of the user who started it and to no other: no other registered *)
(* user's history changes, whatever usernames are registered.              *)
(***************************************************************************)
(* user_games.get(uid, []) *)
Tracked(ug, uid) == IF uid \in DOMAIN ug THEN ug[uid] ELSE <<>>

C14_AiSessionTrackedForStarterOnly ==
    [][\A e \in Emails :
          (/\ e \in DOMAIN users_db
           /\ StartGame(e, "ai", None))
          => /\ Tracked(user_games', users_db[e].id)
                   = Append(Tracked(user_games, users_db[e].id), response'.value)
             /\ \A o \in DOMAIN users_db \ {e} :
                   Tracked(user_games', users_db[o].id) = Tracked(user_games, users_db[o].id)]_vars

(***************************************************************************)
(* C15: after any sequence of start_game calls, the history get_history    *)
(* returns to a user lists, in the order of creation and each exactly      *)
(* once, precisely the sessions the user is one of the two participants    *)
(* of.                                                                     *)
(***************************************************************************)
C15_HistoryListsOwnSessionsOnce ==
    \A e \in DOMAIN users_db :
       LET history == History(users_db[e].id)
           own == {g \in DOMAIN sessions_db :
                     IsParticipant(sessions_db[g], users_db[e].username)}
       IN  /\ {history[i].game_id : i \in 1..Len(history)} = own
           /\ \A i \in 1..Len(history), j \in 1..Len(history) :
                 i < j => history[i].game_id < history[j].game_id
(***************************************************************************)
(* C16: in every reachable state of every session, the number of X marks   *)
(* on the board minus the number of O marks is 0 or 1, and the current     *)
(* turn is X exactly when the two numbers are equal.                       *)
(***************************************************************************)
C16_MarkCountsFollowTurn ==
    \A gid \in DOMAIN sessions_db :
       LET game == sessions_db[gid].game
           xs == CountMark(game.board, "X")
           os == CountMark(game.board, "O")
       IN  /\ xs - os \in {0, 1}
           /\ game.current = "X" <=> xs = os

(* A full board: five X, four O, and O recorded as the next to move. *)
C16_Witness ==
    \E gid \in DOMAIN sessions_db :
       /\ CountMark(sessions_db[gid].game.board, "X") = 5
       /\ CountMark(sessions_db[gid].game.board, "O") = 4
       /\ sessions_db[gid].game.current = "O"
(***************************************************************************)
(* C17: once the winner recorded for a session is a mark, the recorded     *)
(* winner is that mark in every later state, and the winner get_game_state *)
(* reports for the session never changes afterwards.                       *)
(***************************************************************************)
C17_RecordedWinnerIsFinal ==
    [][\A gid \in DOMAIN sessions_db :
          sessions_db[gid].winner # None
          => /\ sessions_db'[gid].winner = sessions_db[gid].winner
             /\ GameState(sessions_db'[gid]).winner = GameState(sessions_db[gid]).winner]_vars
(***************************************************************************)
(* C18: for every entry of a session's move log, the board cell at the     *)
(* logged position holds the logged mark, and the logged mark is the mark  *)
(* of the logged player: X for the first participant, O for the second     *)
(* participant or the AI.                                                  *)
(***************************************************************************)
C18_LogAgreesWithBoard ==
    \A gid \in DOMAIN sessions_db :
       \A i \in 1..Len(sessions_db[gid].moves) :
          LET entry == sessions_db[gid].moves[i]
          IN  /\ sessions_db[gid].game.board[entry.pos[1]][entry.pos[2]] = entry.symbol
              /\ entry.symbol = IF entry.player = sessions_db[gid].players[1]
                                THEN "X" ELSE "O"
(***************************************************************************)
(* C19: between requests, the length of a session's move log, which is the *)
(* moves_count get_history reports, equals the number of occupied cells of *)
(* its board, and the logged positions are pairwise distinct.              *)
(***************************************************************************)
C19_LogLengthIsOccupiedCells ==
    \A gid \in DOMAIN sessions_db :
       LET moves == sessions_db[gid].moves
           board == sessions_db[gid].game.board
       IN  /\ GameHistoryItem(sessions_db[gid]).moves_count = 9 - CountMark(board, None)
           /\ \A i \in 1..Len(moves), j \in 1..Len(moves) :
                 i # j => moves[i].pos # moves[j].pos

(* A full board and nine logged moves, the last one the requester's. *)
C19_Witness ==
    \E gid \in DOMAIN sessions_db :
       /\ BoardFull(sessions_db[gid].game.board)
       /\ Len(sessions_db[gid].moves) = 9
       /\ sessions_db[gid].moves[9].player # "AI"

(***************************************************************************)
(* C20: between requests, the winner stored in the session record, which   *)
(* get_history reports, equals what check_winner returns for the current   *)
(* board, which get_game_state reports: None exactly when no line is       *)
(* uniform, otherwise the same mark.                                       *)
(***************************************************************************)
C20_RecordedWinnerIsBoardWinner ==
    \A gid \in DOMAIN sessions_db :
       LET recorded == GameHistoryItem(sessions_db[gid]).winner
           board == sessions_db[gid].game.board
       IN  /\ recorded = GameState(sessions_db[gid]).winner
           /\ recorded = check_winner(board)
           /\ recorded = None <=> NoLine(board)

(* The AI's reply completed a line: O is recorded and O has a line. *)
C20_Witness ==
    \E gid \in DOMAIN sessions_db :
       /\ sessions_db[gid].winner = "O"
       /\ HasLine(sessions_db[gid].game.board, "O")
       /\ ~HasLine(sessions_db[gid].game.board, "X")
====
